---- MODULE Spec2Model ----
(***************************************************************************)
(* Model of the manual CDC replicator (replicator main, wal2json polling). *)
(* The process sets up a logical replication slot on the source, bulk      *)
(* copies the person table into the target and then polls the slot on a    *)
(* ticker, decoding each wal2json record and applying it to the target.    *)
(* The two PostgreSQL stores and the writers of the source are the         *)
(* environment; every statement the process issues is one step and may     *)
(* fail.                                                                   *)
(*                                                                         *)
(* The repository's second approach, native logical replication (pubsub    *)
(* main and its filtered variant), is a different program on the same two  *)
(* stores: it truncates the target's person table, restarts person_id_seq  *)
(* and subscribes the target to the source.  It may be started at any      *)
(* moment of a run; its statements, and the writes of the subscription it  *)
(* creates, are steps of Next beside those of the replicator.  The         *)
(* properties of the replicator are stated for SpecManual, the runs in     *)
(* which it is not started, and for the harnesses of single sections of    *)
(* main; SpecShared runs the poll loop beside it.                          *)
(***************************************************************************)
EXTENDS Integers, Sequences, FiniteSets, TLC

VARIABLES
    pc,               \* position of main: the statement it executes next
    source,           \* source person table: id -> row
    slotExists,       \* migration_slot is present on the source
    slot,             \* records pending in the slot, in commit order
    nextLsn,          \* position the next record written to the WAL takes
    target,           \* target person table: id -> row
    targetSeq,        \* next value of the target's person_id_seq
    rows,             \* bulk copy: rows of the snapshot not yet read
    batch,            \* bulk copy: rows queued in the pgx.Batch
    copiedCount,      \* bulk copy: copiedCount
    changeRows,       \* tick: records returned by the slot, not yet read
    processedChanges, \* tick: processedChanges
    outcome,          \* what the last processed record was reported as
    delivered,        \* positions of all records a slot read has returned
    lastOp,           \* per id: the events of it handed to the present slot
    slotStart,        \* WAL position at which this run created its slot, or 0
    tgt0,             \* target at the start of the current bulk copy
    loadCounts,       \* target row counts at the end of earlier bulk copies
    faults,           \* statements that have failed so far
    faultBudget,      \* statements the environment may still fail
    writes,           \* source transactions committed so far
    ticks,            \* ticker firings so far
    pubsub,           \* position of the pub/sub program, "off" until started
    copyData,         \* pub/sub program: rows read for its initial sync
    subQueue,         \* changes the subscription has still to apply
    maxID,            \* main's local maxID, 0 as declared
    psMaxID           \* the pub/sub program's local maxID

vars == << pc, source, slotExists, slot, nextLsn, target, targetSeq, rows,
           batch, copiedCount, changeRows, processedChanges, outcome,
           delivered, lastOp, slotStart, tgt0, loadCounts, faults,
           faultBudget, writes, ticks, pubsub, copyData, subQueue, maxID,
           psMaxID >>

---------------------------------------------------------------------------
\* Bounds of the model.

\* ids of the person table are 1..MaxId
MaxId == 2
\* source transactions committed during one run
MaxWrites == 3
\* statements that fail during one run
MaxFaults == 1
\* firings of the ticker during one run
MaxTicks == 2
\* rows per bulk-copy batch; the source flushes at 100 (part_002 line 126)
BatchSize == 2
\* executions of the bulk copy in the bulk-copy harness
MaxLoads == 2

Ids == 1 .. MaxId

---------------------------------------------------------------------------
\* Rows of person: the non-key fields of type Person; the key is the index.

PersonRow(n, u, s, c) == [name |-> n, uid |-> u, score |-> s, created_at |-> c]

Alice == PersonRow("Alice", "u1", 5, "t1")
Bob == PersonRow("Bob", "u2", 8, "t2")
Persons == {Alice, Bob}

\* SQL NULL in created_at, the one nullable column
NullTime == "null"

EmptyTable == [k \in {} |-> Alice]

Put(t, k, r) == [x \in (DOMAIN t) \cup {k} |-> IF x = k THEN r ELSE t[x]]

Remove(t, k) == [x \in (DOMAIN t) \ {k} |-> t[x]]

Tables(ids, rs) == UNION {[S -> rs] : S \in SUBSET ids}

Min(S) == CHOOSE x \in S : \A y \in S : x <= y

Max(S) == CHOOSE x \in S : \A y \in S : x >= y

\* A scanned Person: the key and the fields.
Person(k, r) ==
    [ID |-> k, Name |-> r.name, UID |-> r.uid, Score |-> r.score,
     CreatedAt |-> r.created_at]

\* SELECT id, name, uid, score, created_at FROM person ORDER BY id
RECURSIVE SelectOrderById(_)
SelectOrderById(t) ==
    IF DOMAIN t = {} THEN << >>
    ELSE LET k == Min(DOMAIN t)
         IN  << Person(k, t[k]) >> \o SelectOrderById(Remove(t, k))

---------------------------------------------------------------------------
\* wal2json format-version 2 records.  A record is the text of one row of
\* pg_logical_slot_get_changes; wellformed says whether the text is JSON, doc
\* holds the members of the JSON object (a member may be missing).  lsn is the
\* record's position in the WAL; it is not part of the text.

Col(n, v) == [name |-> n, value |-> v]

PersonCols(k, r) ==
    << Col("id", k), Col("name", r.name), Col("uid", r.uid),
       Col("score", r.score), Col("created_at", r.created_at) >>

KeyCols(k) == << Col("id", k) >>

Record(l, d) == [lsn |-> l, wellformed |-> TRUE, doc |-> d]

InsertDoc(tbl, k, r) ==
    [action |-> "I", table |-> tbl, columns |-> PersonCols(k, r)]

UpdateDoc(tbl, old, k, r) ==
    [action |-> "U", table |-> tbl, columns |-> PersonCols(k, r),
     identity |-> KeyCols(old)]

DeleteDoc(tbl, k) == [action |-> "D", table |-> tbl, identity |-> KeyCols(k)]

\* A record whose text is not JSON.
Garbage(l) == [lsn |-> l, wellformed |-> FALSE, doc |-> << >>]

\* A delete that carries no identity (the table has no replica identity).
DeleteNoKeyDoc(tbl) == [action |-> "D", table |-> tbl]

\* A JSON object with no "action" member.
NoActionDoc(k, r) == [table |-> "person", columns |-> PersonCols(k, r)]

\* type WAL2JSONChange, and json.Unmarshal into it: a missing member leaves the
\* field at its zero value; text that is not JSON is an error.
Member(d, key, zero) == IF key \in DOMAIN d THEN d[key] ELSE zero

ZeroChange == [Action |-> "", Table |-> "", Columns |-> << >>, Identity |-> << >>]

Unmarshal(raw) ==
    IF ~raw.wellformed
    THEN [ok |-> FALSE, change |-> ZeroChange]
    ELSE [ok |-> TRUE,
          change |-> [Action |-> Member(raw.doc, "action", ""),
                      Table |-> Member(raw.doc, "table", ""),
                      Columns |-> Member(raw.doc, "columns", << >>),
                      Identity |-> Member(raw.doc, "identity", << >>)]]

\* values := make(map[string]any); for _, col := range cols { values[col.Name] = col.Value }
RECURSIVE MapValues(_)
MapValues(cols) ==
    IF cols = << >> THEN [n \in {} |-> 0]
    ELSE LET m == MapValues(SubSeq(cols, 1, Len(cols) - 1))
             c == cols[Len(cols)]
         IN  [n \in (DOMAIN m) \cup {c.name} |->
                 IF n = c.name THEN c.value ELSE m[n]]

\* values["key"] as a statement parameter: a missing key is nil, sent as NULL.
Param(values, key) ==
    IF key \in DOMAIN values
    THEN [null |-> FALSE, v |-> values[key]]
    ELSE [null |-> TRUE]

---------------------------------------------------------------------------
\* Statements against the target.  Each returns the table and whether the
\* statement succeeded; io is FALSE when the store fails the statement.

\* An insert that overwrites the row on a conflict (DO UPDATE for DO NOTHING).
InsertOverwrite(t, p) ==
    Put(t, p.ID, PersonRow(p.Name, p.UID, p.Score, p.CreatedAt))

\* Mutant: created_at left out of the column list, so the column default
\* (the time of the copy) is stored.
InsertDefaultCreatedAt(t, p) ==
    IF p.ID \in DOMAIN t THEN t
    ELSE Put(t, p.ID, PersonRow(p.Name, p.UID, p.Score, "now"))

\* Mutant: id left out of the column list, so the sequence assigns the key
\* and no insert ever conflicts.
InsertFreshId(t, p) ==
    Put(t, IF DOMAIN t = {} THEN 1 ELSE Max(DOMAIN t) + 1,
        PersonRow(p.Name, p.UID, p.Score, p.CreatedAt))

\* INSERT ... ON CONFLICT (id) DO NOTHING, of one scanned Person
InsertDoNothing(t, p) ==
    IF p.ID \in DOMAIN t THEN t
    ELSE Put(t, p.ID, PersonRow(p.Name, p.UID, p.Score, p.CreatedAt))

\* A batch of plain inserts (no ON CONFLICT clause): one id that the target
\* already holds fails the batch, and none of its rows is written.
SendBatchPlainInsert(t, b) ==
    IF \E i \in 1 .. Len(b) : b[i].ID \in DOMAIN t THEN t
    ELSE [k \in DOMAIN t \cup {b[i].ID : i \in 1 .. Len(b)} |->
            IF k \in DOMAIN t THEN t[k]
            ELSE LET p == b[CHOOSE i \in 1 .. Len(b) : b[i].ID = k]
                 IN  PersonRow(p.Name, p.UID, p.Score, p.CreatedAt)]

\* targetPool.SendBatch(ctx, batch): the queued inserts, in order, as one unit
RECURSIVE SendBatch(_, _)
SendBatch(t, b) ==
    IF b = << >> THEN t
    ELSE SendBatch(InsertDoNothing(t, Head(b)), Tail(b))

\* INSERT ... ON CONFLICT (id) DO UPDATE SET name, uid, score = EXCLUDED.*
ExecInsert(t, values, io) ==
    LET id == Param(values, "id")
        name == Param(values, "name")
        uid == Param(values, "uid")
        score == Param(values, "score")
        created == Param(values, "created_at")
    IN  IF ~io \/ id.null \/ name.null \/ uid.null \/ score.null
        THEN [ok |-> FALSE, table |-> t]
        ELSE IF id.v \in DOMAIN t
        THEN [ok |-> TRUE,
              table |-> Put(t, id.v, PersonRow(name.v, uid.v, score.v,
                                               t[id.v].created_at))]
        ELSE [ok |-> TRUE,
              table |-> Put(t, id.v, PersonRow(name.v, uid.v, score.v,
                            IF created.null THEN NullTime ELSE created.v))]

\* Mutant: score left out of the SET list.
ExecUpdateNoScore(t, values, io) ==
    LET id == Param(values, "id")
        name == Param(values, "name")
        uid == Param(values, "uid")
    IN  IF ~io THEN [ok |-> FALSE, table |-> t]
        ELSE IF id.null \/ id.v \notin DOMAIN t
        THEN [ok |-> TRUE, table |-> t]
        ELSE IF name.null \/ uid.null
        THEN [ok |-> FALSE, table |-> t]
        ELSE [ok |-> TRUE,
              table |-> Put(t, id.v, PersonRow(name.v, uid.v, t[id.v].score,
                                               t[id.v].created_at))]

\* An update that inserts the row when no row has the id.
ExecUpdateOrInsert(t, values, io) ==
    LET id == Param(values, "id")
        name == Param(values, "name")
        uid == Param(values, "uid")
        score == Param(values, "score")
        created == Param(values, "created_at")
    IN  IF ~io THEN [ok |-> FALSE, table |-> t]
        ELSE IF id.null THEN [ok |-> TRUE, table |-> t]
        ELSE IF name.null \/ uid.null \/ score.null
        THEN [ok |-> FALSE, table |-> t]
        ELSE [ok |-> TRUE,
              table |-> Put(t, id.v, PersonRow(name.v, uid.v, score.v,
                            IF id.v \in DOMAIN t THEN t[id.v].created_at
                            ELSE IF created.null THEN NullTime
                            ELSE created.v))]

\* UPDATE person SET name = $2, uid = $3, score = $4 WHERE id = $1
ExecUpdate(t, values, io) ==
    LET id == Param(values, "id")
        name == Param(values, "name")
        uid == Param(values, "uid")
        score == Param(values, "score")
    IN  IF ~io THEN [ok |-> FALSE, table |-> t]
        ELSE IF id.null \/ id.v \notin DOMAIN t
        THEN [ok |-> TRUE, table |-> t]
        ELSE IF name.null \/ uid.null \/ score.null
        THEN [ok |-> FALSE, table |-> t]
        ELSE [ok |-> TRUE,
              table |-> Put(t, id.v, PersonRow(name.v, uid.v, score.v,
                                               t[id.v].created_at))]

\* Mutant: a delete that matches no row is reported as an error.
ExecDeleteStrict(t, values, io) ==
    LET id == Param(values, "id")
    IN  IF ~io \/ id.null \/ id.v \notin DOMAIN t
        THEN [ok |-> FALSE, table |-> t]
        ELSE [ok |-> TRUE, table |-> Remove(t, id.v)]

\* DELETE FROM person WHERE id = $1
ExecDelete(t, values, io) ==
    LET id == Param(values, "id")
    IN  IF ~io THEN [ok |-> FALSE, table |-> t]
        ELSE IF id.null \/ id.v \notin DOMAIN t
        THEN [ok |-> TRUE, table |-> t]
        ELSE [ok |-> TRUE, table |-> Remove(t, id.v)]

\* Mutant: pg_logical_slot_peek_changes, which leaves the records pending.
SlotPeekChanges(s) == [returned |-> s, remaining |-> s]

\* Mutant: the records come back newest first.
Reverse(s) == [i \in 1 .. Len(s) |-> s[Len(s) + 1 - i]]

SlotGetChangesNewestFirst(s) == [returned |-> Reverse(s), remaining |-> << >>]

\* pg_logical_slot_get_changes(slot, NULL, NULL, ...): returns every pending
\* record and advances the slot past them.
SlotGetChanges(s) == [returned |-> s, remaining |-> << >>]

\* One iteration of the change loop on record raw: scan, parse, filter by
\* table, switch on the action.  scanOk and io say whether the scan and the
\* statement succeed.  Result: the target, the report, whether it was counted.
Skip(t, what) == [table |-> t, outcome |-> what, counted |-> FALSE]

\* A report that counts the statement whether it succeeded or not (the
\* increment placed after the if/else).
AppliedCountsFailures(res, done, failed) ==
    [table |-> res.table,
     outcome |-> IF res.ok THEN done ELSE failed,
     counted |-> TRUE]

Applied(res, done, failed) ==
    [table |-> res.table,
     outcome |-> IF res.ok THEN done ELSE failed,
     counted |-> res.ok]

\* An iteration without the table filter.
ProcessRecordNoFilter(t, raw, scanOk, io) ==
    LET u == Unmarshal(raw)
        change == u.change
    IN  IF ~scanOk THEN Skip(t, "scan_error")
        ELSE IF ~u.ok THEN Skip(t, "parse_error")
        ELSE IF change.Action = "I"
        THEN Applied(ExecInsert(t, MapValues(change.Columns), io),
                     "insert", "insert_error")
        ELSE IF change.Action = "U"
        THEN Applied(ExecUpdate(t, MapValues(change.Columns), io),
                     "update", "update_error")
        ELSE IF change.Action = "D"
        THEN Applied(ExecDelete(t, MapValues(change.Identity), io),
                     "delete", "delete_error")
        ELSE Skip(t, "ignored")

ProcessRecord(t, raw, scanOk, io) ==
    LET u == Unmarshal(raw)
        change == u.change
    IN  IF ~scanOk THEN Skip(t, "scan_error")
        ELSE IF ~u.ok THEN Skip(t, "parse_error")
        ELSE IF change.Table # "person" THEN Skip(t, "filtered")
        ELSE IF change.Action = "I"
        THEN Applied(ExecInsert(t, MapValues(change.Columns), io),
                     "insert", "insert_error")
        ELSE IF change.Action = "U"
        THEN Applied(ExecUpdate(t, MapValues(change.Columns), io),
                     "update", "update_error")
        ELSE IF change.Action = "D"
        THEN Applied(ExecDelete(t, MapValues(change.Identity), io),
                     "delete", "delete_error")
        ELSE Skip(t, "ignored")

\* Whether the iteration on raw issues a statement against the target.
ReachesExec(raw) ==
    /\ Unmarshal(raw).ok
    /\ Unmarshal(raw).change.Table = "person"
    /\ Unmarshal(raw).change.Action \in {"I", "U", "D"}

---------------------------------------------------------------------------
\* The environment: statement failures and the writers of the source.

\* Outcomes a statement can have: it can fail while the budget lasts.
Outcomes == IF faultBudget > 0 THEN {TRUE, FALSE} ELSE {TRUE}

Account(ok) ==
    /\ faults' = IF ok THEN faults ELSE faults + 1
    /\ faultBudget' = IF ok THEN faultBudget ELSE faultBudget - 1

\* The WAL hands a record to the slot when the slot exists.
Emit(d) == IF slotExists THEN Append(slot, d) ELSE slot

\* The events of one id handed to the slot that exists now, as far as they
\* follow the pattern insert, update, delete.
OpStep(s, a) ==
    IF s = "none" /\ a = "I" THEN "I"
    ELSE IF s = "I" /\ a = "U" THEN "IU"
    ELSE IF s = "IU" /\ a = "D" THEN "IUD"
    ELSE "other"

Track(k, a) == IF slotExists THEN [lastOp EXCEPT ![k] = OpStep(@, a)] ELSE lastOp

\* Positions of the pub/sub program at which the publication it created on
\* the source carries the row filter WHERE (score % 2 = 0).
FilteredPositions ==
    {"f_truncate", "f_subscribe", "f_sync", "f_streaming", "f_fatal"}

\* The filtered publication exists.  It publishes updates and deletes and
\* its filter reads score, which the replica identity of person (the key)
\* does not cover: the source rejects every UPDATE and DELETE of person.
FilteredPublication == pubsub \in FilteredPositions

\* A change of person as the publication hands it to the subscription.
Change(op, old, k, r) == [op |-> op, old |-> old, id |-> k, row |-> r]

\* WHERE (score % 2 = 0)
EvenScore(r) == r.score % 2 = 0

\* The subscription's queue after the source commits change c: a streaming
\* subscription receives it, the filtered one when the row passes the filter.
Publish(c) ==
    IF pubsub = "streaming" THEN Append(subQueue, c)
    ELSE IF pubsub = "f_streaming" /\ EvenScore(c.row) THEN Append(subQueue, c)
    ELSE subQueue

ProgramVars ==
    << pc, target, targetSeq, rows, batch, copiedCount, changeRows,
       processedChanges, outcome, delivered, slotStart, tgt0, loadCounts,
       faults, faultBudget, ticks, maxID >>

\* INSERT INTO person on the source (the writer, or any other client)
SourceInsert ==
    /\ writes < MaxWrites
    /\ \E k \in Ids \ DOMAIN source, r \in Persons :
          /\ source' = Put(source, k, r)
          /\ slot' = Emit(Record(nextLsn, InsertDoc("person", k, r)))
          /\ subQueue' = Publish(Change("I", k, k, r))
          /\ lastOp' = Track(k, "I")
    /\ nextLsn' = nextLsn + 1
    /\ writes' = writes + 1
    /\ UNCHANGED << slotExists, ProgramVars, pubsub, copyData,
                    psMaxID >>

\* UPDATE person on the source; the statement may also change the key
SourceUpdate ==
    /\ writes < MaxWrites
    /\ ~FilteredPublication
    /\ \E old \in DOMAIN source, r \in Persons :
       \E k \in {old} \cup (Ids \ DOMAIN source) :
          /\ source' = Put(Remove(source, old), k, r)
          /\ slot' = Emit(Record(nextLsn, UpdateDoc("person", old, k, r)))
          /\ subQueue' = Publish(Change("U", old, k, r))
          /\ lastOp' = IF k = old THEN Track(k, "U")
                       ELSE IF slotExists
                       THEN [lastOp EXCEPT ![k] = "other", ![old] = "other"]
                       ELSE lastOp
    /\ nextLsn' = nextLsn + 1
    /\ writes' = writes + 1
    /\ UNCHANGED << slotExists, ProgramVars, pubsub, copyData,
                    psMaxID >>

\* DELETE FROM person on the source
SourceDelete ==
    /\ writes < MaxWrites
    /\ ~FilteredPublication
    /\ \E k \in DOMAIN source :
          /\ source' = Remove(source, k)
          /\ slot' = Emit(Record(nextLsn, DeleteDoc("person", k)))
          /\ subQueue' = Publish(Change("D", k, k, source[k]))
          /\ lastOp' = Track(k, "D")
    /\ nextLsn' = nextLsn + 1
    /\ writes' = writes + 1
    /\ UNCHANGED << slotExists, ProgramVars, pubsub, copyData,
                    psMaxID >>

\* Records in the slot that are no change of a person row: a change of
\* another table, text that is not JSON, a JSON object without "action", a
\* delete without identity.
OtherRecords(l) ==
    { Record(l, InsertDoc("orders", 1, Alice)),
      Garbage(l),
      Record(l, NoActionDoc(1, Alice)),
      Record(l, DeleteNoKeyDoc("person")) }

SourceOther ==
    /\ writes < MaxWrites
    /\ slotExists
    /\ \E d \in OtherRecords(nextLsn) : slot' = Append(slot, d)
    /\ nextLsn' = nextLsn + 1
    /\ writes' = writes + 1
    /\ UNCHANGED << source, slotExists, lastOp, ProgramVars, pubsub, copyData,
                    subQueue, psMaxID >>

---------------------------------------------------------------------------
\* main, lines 70-93: the replication slot.

EnvVars == << source, nextLsn, writes, pubsub, copyData, subQueue, psMaxID >>

\* A slot check that keeps a slot it finds and resumes from it.
CheckSlotReuse ==
    /\ pc = "check_slot"
    /\ \E ok \in Outcomes :
          /\ pc' = IF ~ok THEN "fatal"
                   ELSE IF slotExists THEN "bulk_query" ELSE "create_slot"
          /\ Account(ok)
    /\ UNCHANGED << slotStart, EnvVars, maxID, slotExists, slot, lastOp, target,
                    targetSeq, rows, batch, copiedCount, changeRows,
                    processedChanges, outcome, delivered, tgt0, loadCounts,
                    ticks >>

\* SELECT EXISTS (SELECT 1 FROM pg_replication_slots WHERE slot_name = $1)
CheckSlot ==
    /\ pc = "check_slot"
    /\ \E ok \in Outcomes :
          /\ pc' = IF ~ok THEN "fatal"
                   ELSE IF slotExists THEN "drop_slot" ELSE "create_slot"
          /\ Account(ok)
    /\ UNCHANGED << slotStart, EnvVars, maxID, slotExists, slot, lastOp, target, targetSeq,
                    rows, batch, copiedCount, changeRows, processedChanges,
                    outcome, delivered, tgt0, loadCounts, ticks >>

\* A drop after which the run goes on to the bulk copy; the slot is created
\* only when none was found.
DropSlotSkipsCreate ==
    /\ pc = "drop_slot"
    /\ \E ok \in Outcomes :
          /\ pc' = IF ok THEN "bulk_query" ELSE "fatal"
          /\ slotExists' = IF ok THEN FALSE ELSE slotExists
          /\ slot' = IF ok THEN << >> ELSE slot
          /\ lastOp' = IF ok THEN [k \in Ids |-> "none"] ELSE lastOp
          /\ Account(ok)
    /\ UNCHANGED << slotStart, EnvVars, maxID, target, targetSeq, rows, batch,
                    copiedCount, changeRows, processedChanges, outcome,
                    delivered, tgt0, loadCounts, ticks >>

\* SELECT pg_drop_replication_slot($1)
DropSlot ==
    /\ pc = "drop_slot"
    /\ \E ok \in Outcomes :
          /\ pc' = IF ok THEN "create_slot" ELSE "fatal"
          /\ slotExists' = IF ok THEN FALSE ELSE slotExists
          /\ slot' = IF ok THEN << >> ELSE slot
          /\ lastOp' = IF ok THEN [k \in Ids |-> "none"] ELSE lastOp
          /\ Account(ok)
    /\ UNCHANGED << slotStart, EnvVars, maxID, target, targetSeq, rows, batch, copiedCount,
                    changeRows, processedChanges, outcome, delivered, tgt0,
                    loadCounts, ticks >>

\* A slot creation whose failure is only logged: the run goes on to the bulk
\* copy without a slot.
CreateSlotWarnOnly ==
    /\ pc = "create_slot"
    /\ \E ok \in Outcomes :
          /\ pc' = "bulk_query"
          /\ slotExists' = IF ok THEN TRUE ELSE slotExists
          /\ slot' = IF ok THEN << >> ELSE slot
          /\ lastOp' = IF ok THEN [k \in Ids |-> "none"] ELSE lastOp
          /\ slotStart' = IF ok THEN nextLsn ELSE slotStart
          /\ Account(ok)
    /\ UNCHANGED << EnvVars, maxID, target, targetSeq, rows, batch, copiedCount,
                    changeRows, processedChanges, outcome, delivered, tgt0,
                    loadCounts, ticks >>

\* SELECT pg_create_logical_replication_slot($1, 'wal2json')
CreateSlot ==
    /\ pc = "create_slot"
    /\ \E ok \in Outcomes :
          /\ pc' = IF ok THEN "bulk_query" ELSE "fatal"
          /\ slotExists' = IF ok THEN TRUE ELSE slotExists
          /\ slot' = IF ok THEN << >> ELSE slot
          /\ lastOp' = IF ok THEN [k \in Ids |-> "none"] ELSE lastOp
          /\ slotStart' = IF ok THEN nextLsn ELSE slotStart
          /\ Account(ok)
    /\ UNCHANGED << EnvVars, maxID, target, targetSeq, rows, batch, copiedCount,
                    changeRows, processedChanges, outcome, delivered, tgt0,
                    loadCounts, ticks >>

---------------------------------------------------------------------------
\* main, lines 95-150: the bulk copy.

\* sourcePool.Query(SELECT ... FROM person ORDER BY id); copiedCount := 0
BulkQuery ==
    /\ pc = "bulk_query"
    /\ \E ok \in Outcomes :
          /\ pc' = IF ok THEN "bulk_loop" ELSE "fatal"
          /\ rows' = IF ok THEN SelectOrderById(source) ELSE rows
          /\ batch' = IF ok THEN << >> ELSE batch
          /\ copiedCount' = IF ok THEN 0 ELSE copiedCount
          /\ Account(ok)
    /\ tgt0' = target
    /\ UNCHANGED << slotStart, EnvVars, maxID, slotExists, slot, lastOp, target, targetSeq,
                    changeRows, processedChanges, outcome, delivered,
                    loadCounts, ticks >>

\* The batch after one more row is queued, and the target after the flush
\* that follows when the batch is full.
Queue(b, p) == Append(b, p)

\* A flush that sends a failed batch again until it is written.
FlushRetried(t, b, ok) == SendBatch(t, b)

Flush(t, b, ok) == IF ok THEN SendBatch(t, b) ELSE t

\* What a cursor still holds after the Scan of its first row.  The loop
\* continues after a failed Scan; whether rows.Next() then yields the next row
\* or nothing (the driver may close the cursor on the error) is the driver's.
AfterScan(cursor, scanOk) ==
    IF scanOk THEN {Tail(cursor)} ELSE {Tail(cursor), << >>}

\* One iteration of `for rows.Next()`: scan, queue, flush a full batch.
BulkNext ==
    /\ pc = "bulk_loop"
    /\ rows # << >>
    /\ \E scanOk \in Outcomes :
          /\ rows' \in AfterScan(rows, scanOk)
          /\ IF ~scanOk
             THEN /\ Account(FALSE)
                  /\ UNCHANGED << batch, copiedCount, target >>
             ELSE LET b == Queue(batch, Head(rows))
                  IN  /\ copiedCount' = copiedCount + 1
                      /\ IF Len(b) >= BatchSize
                         THEN \E ok \in Outcomes :
                                 /\ target' = Flush(target, b, ok)
                                 /\ Account(ok)
                                 /\ batch' = << >>
                         ELSE /\ batch' = b
                              /\ Account(TRUE)
                              /\ UNCHANGED target
    /\ UNCHANGED << pc, slotStart, EnvVars, maxID, slotExists, slot, lastOp, targetSeq,
                    changeRows, processedChanges, outcome, delivered, tgt0,
                    loadCounts, ticks >>

\* After the loop: flush what is left in the batch.
BulkFinal ==
    /\ pc = "bulk_loop"
    /\ rows = << >>
    /\ IF Len(batch) > 0
       THEN \E ok \in Outcomes :
               /\ target' = Flush(target, batch, ok)
               /\ Account(ok)
       ELSE /\ Account(TRUE)
            /\ UNCHANGED target
    /\ pc' = "seq_sync"
    /\ UNCHANGED << slotStart, EnvVars, maxID, slotExists, slot, lastOp, targetSeq, rows, batch,
                    copiedCount, changeRows, processedChanges, outcome,
                    delivered, tgt0, loadCounts, ticks >>

\* The smallest id for the largest (MIN for MAX in the query).
MinID(t) == IF DOMAIN t = {} THEN 0 ELSE Min(DOMAIN t)

\* SELECT COALESCE(MAX(id), 0) FROM person
MaxID(t) == IF DOMAIN t = {} THEN 0 ELSE Max(DOMAIN t)

\* var maxID int; SELECT COALESCE(MAX(id), 0) FROM person, on the target.
\* The sequence is altered when the query succeeded and maxID > 0.
SeqQuery ==
    /\ pc = "seq_sync"
    /\ \E ok \in Outcomes :
          /\ maxID' = IF ok THEN MaxID(target) ELSE 0
          /\ pc' = IF ok /\ MaxID(target) > 0 THEN "seq_alter" ELSE "idle"
          /\ Account(ok)
    /\ UNCHANGED << slotStart, EnvVars, slotExists, slot, lastOp, target,
                    targetSeq, rows, batch, copiedCount, changeRows,
                    processedChanges, outcome, delivered, tgt0, loadCounts,
                    ticks >>

\* ALTER SEQUENCE person_id_seq RESTART WITH maxID+1; a failure is a warning
SeqAlter ==
    /\ pc = "seq_alter"
    /\ \E ok \in Outcomes :
          /\ targetSeq' = IF ok THEN maxID + 1 ELSE targetSeq
          /\ Account(ok)
    /\ pc' = "idle"
    /\ UNCHANGED << slotStart, EnvVars, maxID, slotExists, slot, lastOp, target,
                    rows, batch, copiedCount, changeRows, processedChanges,
                    outcome, delivered, tgt0, loadCounts, ticks >>

---------------------------------------------------------------------------
\* main, lines 152-276: the poll loop.

RECURSIVE Lsns(_)
Lsns(s) == IF s = << >> THEN {} ELSE {Head(s).lsn} \cup Lsns(Tail(s))

\* A tick whose failed query ends the process (log.Fatalf for log.Printf).
TickFatalOnError ==
    /\ pc = "idle"
    /\ ticks < MaxTicks
    /\ ticks' = ticks + 1
    /\ \E ok \in Outcomes :
          LET got == SlotGetChanges(slot)
          IN  /\ Account(ok)
              /\ pc' = IF ok THEN "processing" ELSE "fatal"
              /\ changeRows' = IF ok THEN got.returned ELSE changeRows
              /\ slot' = IF ok THEN got.remaining ELSE slot
              /\ delivered' = IF ok THEN delivered \cup Lsns(got.returned)
                              ELSE delivered
              /\ processedChanges' = IF ok THEN 0 ELSE processedChanges
    /\ UNCHANGED << slotStart, EnvVars, maxID, slotExists, lastOp, target,
                    targetSeq, rows, batch, copiedCount, outcome, tgt0,
                    loadCounts >>

\* `for range ticker.C`: read the slot; a failed query ends the tick.
Tick ==
    /\ pc = "idle"
    /\ ticks < MaxTicks
    /\ ticks' = ticks + 1
    /\ \E ok \in Outcomes :
          LET got == SlotGetChanges(slot)
          IN  /\ Account(ok)
              /\ pc' = IF ok THEN "processing" ELSE "idle"
              /\ changeRows' = IF ok THEN got.returned ELSE changeRows
              /\ slot' = IF ok THEN got.remaining ELSE slot
              /\ delivered' = IF ok THEN delivered \cup Lsns(got.returned)
                              ELSE delivered
              /\ processedChanges' = IF ok THEN 0 ELSE processedChanges
    /\ UNCHANGED << slotStart, EnvVars, maxID, slotExists, lastOp, target, targetSeq, rows,
                    batch, copiedCount, outcome, tgt0, loadCounts >>

\* The outcomes of an iteration whose statement on the target failed.
ApplyErrors == {"insert_error", "update_error", "delete_error"}

\* A loop that keeps a record whose statement failed, to apply it again.
RestRetryOnError(cr, res) ==
    IF res.outcome \in ApplyErrors THEN cr ELSE Tail(cr)

\* Mutant: a record that fails to parse ends the loop (break for continue).
RestBreakOnParseError(cr, res) ==
    IF res.outcome = "parse_error" THEN << >> ELSE Tail(cr)

\* The records still to process after the iteration on the first of them.
Rest(cr, res) == Tail(cr)

\* One iteration of `for changeRows.Next()`.
ProcessChange ==
    /\ pc = "processing"
    /\ changeRows # << >>
    /\ \E scanOk \in Outcomes :
       \E io \in IF scanOk /\ ReachesExec(Head(changeRows))
                 THEN Outcomes ELSE {TRUE} :
          LET res == ProcessRecord(target, Head(changeRows), scanOk, io)
          IN  /\ target' = res.table
              /\ outcome' = res.outcome
              /\ processedChanges' = IF res.counted THEN processedChanges + 1
                                     ELSE processedChanges
              /\ changeRows' \in IF scanOk THEN {Rest(changeRows, res)}
                                 ELSE AfterScan(changeRows, scanOk)
              /\ Account(scanOk /\ io)
    /\ UNCHANGED << pc, slotStart, EnvVars, maxID, slotExists, slot, lastOp, targetSeq, rows,
                    batch, copiedCount, delivered, tgt0, loadCounts, ticks >>

\* A tick that is cut off by the next one while records are left.
TickEndEarly ==
    /\ pc = "processing"
    /\ pc' = "idle"
    /\ UNCHANGED << slotStart, EnvVars, maxID, slotExists, slot, lastOp, target,
                    targetSeq, rows, batch, copiedCount, changeRows,
                    processedChanges, outcome, delivered, tgt0, loadCounts,
                    faults, faultBudget, ticks >>

\* changeRows.Close(); the loop waits for the next tick.
TickEnd ==
    /\ pc = "processing"
    /\ changeRows = << >>
    /\ pc' = "idle"
    /\ UNCHANGED << slotStart, EnvVars, maxID, slotExists, slot, lastOp, target, targetSeq,
                    rows, batch, copiedCount, changeRows, processedChanges,
                    outcome, delivered, tgt0, loadCounts, faults, faultBudget,
                    ticks >>

---------------------------------------------------------------------------
\* The pub/sub programs: main of pubsub/main.go and its filtered variant.
\* A statement of theirs that fails ends the program where the code calls
\* log.Fatal.

ReplicatorVars ==
    << pc, slotExists, slot, lastOp, rows, batch, copiedCount, changeRows,
       processedChanges, outcome, delivered, slotStart, tgt0, loadCounts,
       faults, faultBudget, ticks, maxID >>

SourceVars == << source, nextLsn, writes >>

\* The program is started, once in a run: CREATE TABLE IF NOT EXISTS, the
\* two drops, CREATE PUBLICATION (with the row filter in the filtered
\* variant).
PubSubStart ==
    /\ pubsub = "off"
    /\ \E ok \in BOOLEAN, filtered \in BOOLEAN :
          pubsub' = IF ~ok THEN "fatal"
                    ELSE IF filtered THEN "f_truncate" ELSE "truncate"
    /\ UNCHANGED << ReplicatorVars, SourceVars, psMaxID, target, targetSeq, copyData,
                    subQueue >>

\* TRUNCATE TABLE person RESTART IDENTITY, on the target
PubSubTruncate ==
    /\ pubsub \in {"truncate", "f_truncate"}
    /\ \E ok \in BOOLEAN :
          /\ target' = IF ok THEN EmptyTable ELSE target
          /\ targetSeq' = IF ok THEN 1 ELSE targetSeq
          /\ pubsub' = IF pubsub = "truncate"
                       THEN (IF ok THEN "query" ELSE "fatal")
                       ELSE (IF ok THEN "f_subscribe" ELSE "f_fatal")
    /\ UNCHANGED << ReplicatorVars, SourceVars, psMaxID, copyData, subQueue >>

\* The rows the scan loop collects from a cursor: a row whose Scan fails is
\* left out, and the cursor may end there.
Scanned(cursor) ==
    {cursor}
      \cup {SubSeq(cursor, 1, i - 1) \o SubSeq(cursor, i + 1, Len(cursor)) :
               i \in 1 .. Len(cursor)}
      \cup {SubSeq(cursor, 1, i - 1) : i \in 1 .. Len(cursor)}

\* SELECT id, name, uid, score, created_at FROM person ORDER BY id, on the
\* source, and the scan loop that fills copyData
PubSubQuery ==
    /\ pubsub = "query"
    /\ \/ /\ pubsub' = "copy"
          /\ copyData' \in Scanned(SelectOrderById(source))
       \/ /\ pubsub' = "fatal"
          /\ UNCHANGED copyData
    /\ UNCHANGED << ReplicatorVars, SourceVars, psMaxID, target, targetSeq, subQueue >>

\* COPY person FROM STDIN of the rows in data: one row whose id the table
\* holds fails the statement, and none of its rows is written.
CopyFrom(t, data) ==
    IF \E i \in 1 .. Len(data) : data[i].ID \in DOMAIN t
    THEN [ok |-> FALSE, table |-> t]
    ELSE [ok |-> TRUE,
          table |-> [k \in DOMAIN t \cup {data[i].ID : i \in 1 .. Len(data)} |->
                       IF k \in DOMAIN t THEN t[k]
                       ELSE LET p == data[CHOOSE i \in 1 .. Len(data) :
                                              data[i].ID = k]
                            IN  PersonRow(p.Name, p.UID, p.Score, p.CreatedAt)]]

\* if len(copyData) > 0 { targetPool.CopyFrom(...) }
PubSubCopy ==
    /\ pubsub = "copy"
    /\ IF Len(copyData) > 0
       THEN \E io \in BOOLEAN :
               LET res == CopyFrom(target, copyData)
               IN  /\ target' = IF io THEN res.table ELSE target
                   /\ pubsub' = IF io /\ res.ok THEN "seq" ELSE "fatal"
       ELSE /\ pubsub' = "seq"
            /\ UNCHANGED target
    /\ copyData' = << >>
    /\ UNCHANGED << ReplicatorVars, SourceVars, psMaxID, targetSeq, subQueue >>

\* var maxID int; SELECT COALESCE(MAX(id), 0) FROM person, on the target.
\* The sequence is altered when the query succeeded and maxID > 0.
PubSubSeqQuery ==
    /\ pubsub = "seq"
    /\ \E ok \in BOOLEAN :
          /\ psMaxID' = IF ok THEN MaxID(target) ELSE 0
          /\ pubsub' = IF ok /\ MaxID(target) > 0
                       THEN "seq_alter" ELSE "subscribe"
    /\ UNCHANGED << ReplicatorVars, SourceVars, target, targetSeq, copyData,
                    subQueue >>

\* ALTER SEQUENCE person_id_seq RESTART WITH maxID+1; a failure is a warning
PubSubSeqAlter ==
    /\ pubsub = "seq_alter"
    /\ \E ok \in BOOLEAN :
          targetSeq' = IF ok THEN psMaxID + 1 ELSE targetSeq
    /\ pubsub' = "subscribe"
    /\ UNCHANGED << ReplicatorVars, SourceVars, psMaxID, target, copyData,
                    subQueue >>

\* CREATE SUBSCRIPTION person_subscription (copy_data = false in pubsub
\* main, the default true in the filtered variant), tried with a second
\* connection string when the first fails.
PubSubSubscribe ==
    /\ pubsub \in {"subscribe", "f_subscribe"}
    /\ \E ok \in BOOLEAN :
          pubsub' = IF pubsub = "subscribe"
                    THEN (IF ok THEN "streaming" ELSE "fatal")
                    ELSE (IF ok THEN "f_sync" ELSE "f_fatal")
    /\ subQueue' = << >>
    /\ UNCHANGED << ReplicatorVars, SourceVars, psMaxID, target, targetSeq, copyData >>

\* The rows of t that pass the row filter, in id order.
RECURSIVE SelectEven(_)
SelectEven(t) ==
    IF DOMAIN t = {} THEN << >>
    ELSE LET k == Min(DOMAIN t)
             rest == SelectEven(Remove(t, k))
         IN  IF EvenScore(t[k]) THEN << Person(k, t[k]) >> \o rest ELSE rest

\* copy_data: the subscription copies the published rows of the source into
\* the target, then streams.  While a row's id is taken on the target the
\* copy fails and is tried again.
SubscriptionSync ==
    /\ pubsub = "f_sync"
    /\ CopyFrom(target, SelectEven(source)).ok
    /\ target' = CopyFrom(target, SelectEven(source)).table
    /\ pubsub' = "f_streaming"
    /\ subQueue' = << >>
    /\ UNCHANGED << ReplicatorVars, SourceVars, psMaxID, targetSeq, copyData >>

\* The subscription applies change c to table t.  An insert, or an update
\* that moves a row, onto an id the table holds is a conflict; an update or
\* delete of a row the table does not hold is skipped.
ApplyChange(t, c) ==
    IF c.op = "I"
    THEN IF c.id \in DOMAIN t THEN [ok |-> FALSE, table |-> t]
         ELSE [ok |-> TRUE, table |-> Put(t, c.id, c.row)]
    ELSE IF c.op = "U"
    THEN IF c.old \notin DOMAIN t THEN [ok |-> TRUE, table |-> t]
         ELSE IF c.id # c.old /\ c.id \in DOMAIN t
         THEN [ok |-> FALSE, table |-> t]
         ELSE [ok |-> TRUE, table |-> Put(Remove(t, c.old), c.id, c.row)]
    ELSE [ok |-> TRUE, table |-> Remove(t, c.old)]

\* The subscription's apply worker applies the oldest change it holds; on a
\* conflict it stops and tries the same change again.
SubscriptionApply ==
    /\ pubsub \in {"streaming", "f_streaming"}
    /\ subQueue # << >>
    /\ ApplyChange(target, Head(subQueue)).ok
    /\ target' = ApplyChange(target, Head(subQueue)).table
    /\ subQueue' = Tail(subQueue)
    /\ UNCHANGED << ReplicatorVars, SourceVars, psMaxID, targetSeq, pubsub, copyData >>

PubSub ==
    \/ PubSubStart \/ PubSubTruncate \/ PubSubQuery \/ PubSubCopy
    \/ PubSubSeqQuery \/ PubSubSeqAlter \/ PubSubSubscribe \/ SubscriptionSync \/ SubscriptionApply

---------------------------------------------------------------------------
\* One run of the replicator beside the writers of the source.

\* A record left in a slot of an earlier run.
Stale == Record(0, InsertDoc("person", 1, Alice))

\* The source holds ids 1..n, rows alternating between the two persons.
SeedRow(k) == IF k % 2 = 1 THEN Alice ELSE Bob

InitSources == {[k \in 1 .. n |-> SeedRow(k)] : n \in 0 .. MaxId}

InitTargets == {EmptyTable, Put(EmptyTable, 1, Bob)}

InitLocals ==
    /\ targetSeq = 1
    /\ rows = << >>
    /\ batch = << >>
    /\ copiedCount = 0
    /\ changeRows = << >>
    /\ processedChanges = 0
    /\ outcome = "none"
    /\ delivered = {}
    /\ lastOp = [k \in Ids |-> "none"]
    /\ slotStart = 0
    /\ tgt0 = target
    /\ loadCounts = << >>
    /\ faults = 0
    /\ writes = 0
    /\ ticks = 0
    /\ pubsub = "off"
    /\ copyData = << >>
    /\ subQueue = << >>
    /\ maxID = 0
    /\ psMaxID = 0

Init ==
    /\ pc = "check_slot"
    /\ source \in InitSources
    /\ target \in InitTargets
    /\ slotExists \in BOOLEAN
    /\ slot = IF slotExists THEN << Stale >> ELSE << >>
    /\ nextLsn = 1
    /\ faultBudget = MaxFaults
    /\ InitLocals

Replicator ==
    \/ CheckSlot \/ DropSlot \/ CreateSlot
    \/ BulkQuery \/ BulkNext \/ BulkFinal \/ SeqQuery \/ SeqAlter
    \/ Tick \/ ProcessChange \/ TickEnd

Writers == SourceInsert \/ SourceUpdate \/ SourceDelete \/ SourceOther

\* A run of the first approach: replicator main beside the writers of the
\* source; the pub/sub program is not started.
Manual == Replicator \/ Writers

SpecManual == Init /\ [][Manual]_vars

\* The programs of the repository on the two stores.
Next == Manual \/ PubSub

Spec == Init /\ [][Next]_vars

\* The poll loop beside the writers and the pub/sub program, entered as the
\* run above enters it after the bulk copy of a source of two rows into an
\* empty target.
InitShared ==
    /\ pc = "idle"
    /\ source = [k \in 1 .. 2 |-> SeedRow(k)]
    /\ target = source
    /\ slotExists = TRUE
    /\ slot = << >>
    /\ nextLsn = 1
    /\ faultBudget = MaxFaults
    /\ targetSeq = 3
    /\ rows = << >>
    /\ batch = << >>
    /\ copiedCount = 2
    /\ changeRows = << >>
    /\ processedChanges = 0
    /\ outcome = "none"
    /\ delivered = {}
    /\ lastOp = [k \in Ids |-> "none"]
    /\ slotStart = 1
    /\ tgt0 = EmptyTable
    /\ loadCounts = << >>
    /\ faults = 0
    /\ writes = 0
    /\ ticks = 0
    /\ pubsub = "off"
    /\ copyData = << >>
    /\ subQueue = << >>
    /\ maxID = 2
    /\ psMaxID = 0

NextShared == Tick \/ ProcessChange \/ TickEnd \/ Writers \/ PubSub

SpecShared == InitShared /\ [][NextShared]_vars

\* The poll loop on its own, entered as the run above enters it after the
\* bulk copy of a source that holds one row into an empty target, beside
\* writers that delete the row and leave other records in the slot.  The
\* timer keeps firing and statements return: a tick that can start does
\* start, and a tick in progress takes its next step.
InitPoll ==
    /\ pc = "idle"
    /\ source = Put(EmptyTable, 1, Alice)
    /\ target = source
    /\ slotExists = TRUE
    /\ slot = << >>
    /\ nextLsn = 1
    /\ faultBudget = MaxFaults
    /\ targetSeq = 2
    /\ rows = << >>
    /\ batch = << Person(1, Alice) >>
    /\ copiedCount = 1
    /\ changeRows = << >>
    /\ processedChanges = 0
    /\ outcome = "none"
    /\ delivered = {}
    /\ lastOp = [k \in Ids |-> "none"]
    /\ slotStart = 1
    /\ tgt0 = EmptyTable
    /\ loadCounts = << >>
    /\ faults = 0
    /\ writes = 0
    /\ ticks = 0
    /\ pubsub = "off"
    /\ copyData = << >>
    /\ subQueue = << >>
    /\ maxID = 1
    /\ psMaxID = 0

NextPoll == Tick \/ ProcessChange \/ TickEnd \/ SourceDelete \/ SourceOther

SpecPoll ==
    /\ InitPoll
    /\ [][NextPoll]_vars
    /\ WF_vars(Tick)
    /\ WF_vars(ProcessChange)
    /\ WF_vars(TickEnd)

---------------------------------------------------------------------------
\* The bulk copy on its own: lines 95-140 executed against every source and
\* target of the bounds, and executed again against the same pair.

\* ids 1..MaxRows in the bulk-copy runs
MaxRows == 3

\* The bulk-copy section is entered again with the stores as they are (the
\* operator runs the replicator again); the row count of the target is noted.
Reload ==
    /\ pc = "seq_sync"
    /\ Len(loadCounts) + 1 < MaxLoads
    /\ pc' = "bulk_query"
    /\ loadCounts' = Append(loadCounts, Cardinality(DOMAIN target))
    /\ UNCHANGED << slotStart, EnvVars, maxID, slotExists, slot, lastOp, target, targetSeq,
                    rows, batch, copiedCount, changeRows, processedChanges,
                    outcome, delivered, tgt0, faults, faultBudget, ticks >>

InitBulk ==
    /\ pc = "bulk_query"
    /\ source \in Tables(1 .. MaxRows, Persons)
    /\ target \in Tables(1 .. 2, Persons)
    /\ slotExists = TRUE
    /\ slot = << >>
    /\ nextLsn = 1
    /\ faultBudget = MaxFaults
    /\ InitLocals

NextBulk == BulkQuery \/ BulkNext \/ BulkFinal \/ Reload

SpecBulk == InitBulk /\ [][NextBulk]_vars

---------------------------------------------------------------------------
\* The bulk copy and the sequence resync on their own (lines 95-150),
\* executed against every source, target and sequence value of the bounds,
\* and followed by inserts into person on the target that leave the id to
\* the sequence.

\* values of person_id_seq in these runs
MaxSeq == 4

\* INSERT INTO person (name, uid, score) on the target, by a client of the
\* target after the load: id SERIAL takes the next value of person_id_seq,
\* which is used up whether or not the insert succeeds; an id that a row of
\* the table has violates the primary key and nothing is written.
TargetInsert ==
    /\ pc = "idle"
    /\ targetSeq <= MaxSeq
    /\ \E r \in Persons :
          target' = IF targetSeq \in DOMAIN target THEN target
                    ELSE Put(target, targetSeq, r)
    /\ targetSeq' = targetSeq + 1
    /\ UNCHANGED << pc, slotStart, EnvVars, maxID, slotExists, slot, lastOp, rows,
                    batch, copiedCount, changeRows, processedChanges, outcome,
                    delivered, tgt0, loadCounts, faults, faultBudget, ticks >>

InitSeq ==
    /\ pc = "bulk_query"
    /\ source \in Tables(1 .. MaxRows, Persons)
    /\ target \in Tables(1 .. 2, Persons)
    /\ targetSeq \in 1 .. MaxSeq
    /\ slotExists = TRUE
    /\ slot = << >>
    /\ nextLsn = 1
    /\ faultBudget = MaxFaults
    /\ rows = << >>
    /\ batch = << >>
    /\ copiedCount = 0
    /\ changeRows = << >>
    /\ processedChanges = 0
    /\ outcome = "none"
    /\ delivered = {}
    /\ lastOp = [k \in Ids |-> "none"]
    /\ slotStart = 0
    /\ tgt0 = target
    /\ loadCounts = << >>
    /\ faults = 0
    /\ writes = 0
    /\ ticks = 0
    /\ pubsub = "off"
    /\ copyData = << >>
    /\ subQueue = << >>
    /\ maxID = 0
    /\ psMaxID = 0

NextSeq ==
    \/ BulkQuery \/ BulkNext \/ BulkFinal
    \/ SeqQuery \/ SeqAlter \/ TargetInsert

SpecSeq == InitSeq /\ [][NextSeq]_vars

---------------------------------------------------------------------------
\* The end-to-end scenario: the source holds Alice (score 3) and Bob (score
\* 4), the target is empty, no statement fails; after the bulk copy and
\* before the first tick the source inserts Carol (score 9) under id 3 and
\* updates row 1 to score 30.

ScenarioInsert ==
    /\ pc \in {"seq_sync", "seq_alter", "idle"}
    /\ ticks = 0
    /\ 3 \notin DOMAIN source
    /\ LET r == PersonRow("Carol", "u3", 9, "t3")
       IN  /\ source' = Put(source, 3, r)
           /\ slot' = Emit(Record(nextLsn, InsertDoc("person", 3, r)))
    /\ nextLsn' = nextLsn + 1
    /\ writes' = writes + 1
    /\ UNCHANGED << slotExists, lastOp, ProgramVars, pubsub, copyData,
                    subQueue, psMaxID >>

ScenarioUpdate ==
    /\ pc \in {"seq_sync", "seq_alter", "idle"}
    /\ ticks = 0
    /\ source[1].score = 3
    /\ LET r == [source[1] EXCEPT !.score = 30]
       IN  /\ source' = Put(source, 1, r)
           /\ slot' = Emit(Record(nextLsn, UpdateDoc("person", 1, 1, r)))
    /\ nextLsn' = nextLsn + 1
    /\ writes' = writes + 1
    /\ UNCHANGED << slotExists, lastOp, ProgramVars, pubsub, copyData,
                    subQueue, psMaxID >>

InitScenario ==
    /\ pc = "check_slot"
    /\ \E u1 \in {"u1", "u2"}, u2 \in {"u1", "u2"},
          c1 \in {"t1", "t2"}, c2 \in {"t1", "t2"} :
          source = << PersonRow("Alice", u1, 3, c1), PersonRow("Bob", u2, 4, c2) >>
    /\ target = EmptyTable
    /\ slotExists \in BOOLEAN
    /\ slot = IF slotExists THEN << Stale >> ELSE << >>
    /\ nextLsn = 1
    /\ faultBudget = 0
    /\ InitLocals

NextScenario == Replicator \/ ScenarioInsert \/ ScenarioUpdate

SpecScenario == InitScenario /\ [][NextScenario]_vars

---------------------------------------------------------------------------
\* A tick has finished and the slot holds nothing more.
Drained == pc = "idle" /\ ticks > 0 /\ slot = << >> /\ changeRows = << >>

\* C1: whenever a tick has finished and no change is pending in the slot, the
\* target holds a row for exactly the ids the source holds a row for.  Stated
\* for the runs in which no statement has failed and the target was empty
\* before the bulk copy, where nothing but the replicator's own handling of
\* the events decides it.
C1_RowSetsEqual ==
    (Drained /\ faults = 0 /\ tgt0 = EmptyTable)
        => DOMAIN target = DOMAIN source

\* C2: slot consumption is destructive: no record a slot read returns was
\* returned by an earlier slot read of the run.
C2_NeverDeliveredAgain ==
    [][(pc = "idle" /\ pc' = "processing")
          => Lsns(changeRows') \cap delivered = {}]_vars

\* C2 witness: a slot read has returned records after an earlier read
\* returned others.
C2_SecondReadReturns ==
    /\ pc = "processing"
    /\ changeRows # << >>
    /\ delivered \ Lsns(changeRows) # {}

\* A bulk copy has run to its end, from an empty target, with no failure.
LoadedFromEmpty == pc = "seq_sync" /\ tgt0 = EmptyTable /\ faults = 0

\* C3: after a bulk copy from a source of N rows into an empty target the
\* target holds exactly N rows, each equal in every field to the source row
\* of the same id.
C3_BulkLoadComplete ==
    LoadedFromEmpty
        => /\ Cardinality(DOMAIN target) = Cardinality(DOMAIN source)
           /\ copiedCount = Cardinality(DOMAIN source)
           /\ \A k \in DOMAIN source : k \in DOMAIN target /\ target[k] = source[k]

\* C3 witness: a copy of a source that fills one batch and part of the next.
C3_LoadedThreeRows ==
    /\ LoadedFromEmpty
    /\ Cardinality(DOMAIN source) = BatchSize + 1
    /\ target = source

\* C4: a bulk copy run again from the same source into the same target
\* leaves the target with as many rows as the earlier copy left it with.
C4_BulkLoadIdempotent ==
    (pc = "seq_sync" /\ faults = 0)
        => \A i \in 1 .. Len(loadCounts) :
              Cardinality(DOMAIN target) = loadCounts[i]

\* C4 witness: the second copy of a source of several rows has finished.
C4_LoadedTwice ==
    /\ pc = "seq_sync"
    /\ Len(loadCounts) = 1
    /\ faults = 0
    /\ loadCounts[1] >= 2
    /\ tgt0 # EmptyTable

\* The insert events of the bounds, and the iteration of the change loop on
\* one of them when no statement fails.
InsertEvents ==
    {[id |-> k, row |-> r] : k \in Ids, r \in Persons}

ApplyInsert(t, e) ==
    ProcessRecord(t, Record(0, InsertDoc("person", e.id, e.row)), TRUE, TRUE)

\* C5: applying an insert event twice to the target leaves one row with the
\* event's id, equal to the event in every field, gives the same target as
\* applying it once, and the second application succeeds.  The target states
\* are those the replicator itself builds from an empty target.
C5_InsertTwice ==
    tgt0 = EmptyTable =>
    \A e \in InsertEvents :
        LET once == ApplyInsert(target, e)
            twice == ApplyInsert(once.table, e)
        IN  /\ twice.outcome = "insert"
            /\ twice.table = once.table
            /\ e.id \in DOMAIN twice.table
            /\ twice.table[e.id] = e.row

\* Whether record raw is a change of person row k.
HasId(cols, k) == \E i \in 1 .. Len(cols) : cols[i].name = "id" /\ cols[i].value = k

Touches(raw, k) ==
    /\ ReachesExec(raw)
    /\ \/ HasId(Unmarshal(raw).change.Columns, k)
       \/ HasId(Unmarshal(raw).change.Identity, k)

Pending(k) ==
    \E i \in 1 .. Len(slot \o changeRows) : Touches((slot \o changeRows)[i], k)

\* C6: when Insert(k), Update(k), Delete(k) were committed in that order and
\* all three have been processed, in one tick or several, the target holds
\* no row k.
C6_InsertUpdateDelete ==
    \A k \in Ids :
        (lastOp[k] = "IUD" /\ ~Pending(k) /\ faults = 0) => k \notin DOMAIN target

\* C6 witness: the three events of some id have been read from the slot and
\* processed.
C6_ThreeProcessed ==
    \E k \in Ids :
        /\ lastOp[k] = "IUD"
        /\ ~Pending(k)
        /\ faults = 0
        /\ Cardinality(delivered) >= 3
        /\ outcome = "delete"

\* C7: a record that fails to parse is dropped: the target and the count stay
\* as they are and the loop goes on with the records after it, in order.
C7_ParseErrorSkipsRecord ==
    [][(/\ pc = "processing"
        /\ changeRows # << >>
        /\ ~Unmarshal(Head(changeRows)).ok
        /\ changeRows' # changeRows
        /\ faults' = faults)
          => /\ pc' = "processing"
             /\ outcome' = "parse_error"
             /\ changeRows' = Tail(changeRows)
             /\ target' = target
             /\ processedChanges' = processedChanges]_vars

\* C7 witness: a record failed to parse and a change of person is next in the
\* same batch.
C7_ParseErrorThenChange ==
    /\ pc = "processing"
    /\ outcome = "parse_error"
    /\ changeRows # << >>
    /\ ReachesExec(Head(changeRows))

\* C8: a record that is not JSON, and a JSON record without "action", are
\* each reported as failing to parse.
C8_DecoderRejects ==
    [][(/\ pc = "processing"
        /\ changeRows # << >>
        /\ changeRows' = Tail(changeRows)
        /\ faults' = faults
        /\ \/ ~Head(changeRows).wellformed
           \/ "action" \notin DOMAIN Head(changeRows).doc)
          => outcome' = "parse_error"]_vars

\* Whether record raw is a delete of a person row that t does not hold.
DeleteOfAbsent(raw, t) ==
    /\ ReachesExec(raw)
    /\ Unmarshal(raw).change.Action = "D"
    /\ \A k \in DOMAIN t : ~HasId(Unmarshal(raw).change.Identity, k)

\* C9: a delete event whose id matches no row of the target succeeds and
\* leaves the target as it is.
C9_DeleteAbsentRow ==
    [][(/\ pc = "processing"
        /\ changeRows # << >>
        /\ changeRows' = Tail(changeRows)
        /\ DeleteOfAbsent(Head(changeRows), target))
          => /\ target' = target
             /\ faults' = faults
                   => /\ outcome' = "delete"
                      /\ processedChanges' = processedChanges + 1]_vars

\* C9 witness: the one record processed so far was a delete, applied to a
\* target that the bulk copy had left empty.
C9_DeletedFromEmpty ==
    /\ outcome = "delete"
    /\ faults = 0
    /\ Cardinality(delivered) = 1
    /\ processedChanges = 1
    /\ tgt0 = EmptyTable
    /\ copiedCount = 0
    /\ target = EmptyTable

\* The first tick of the scenario has ended with both writes committed.
ScenarioDone == writes = 2 /\ pc = "idle" /\ ticks >= 1

\* C10: in the scenario one tick consumes both changes and the target then
\* holds three rows, row 1 with score 30 and row 3 with score 9.
C10_Scenario ==
    ScenarioDone
        => /\ slot = << >>
           /\ Cardinality(delivered) = 2
           /\ ticks = 1 => processedChanges = 2
           /\ DOMAIN target = {1, 2, 3}
           /\ target[1].score = 30
           /\ target[3].score = 9

\* C10 witness: the tick that consumed both changes has ended.
C10_ScenarioReached ==
    /\ ScenarioDone
    /\ ticks = 1
    /\ processedChanges = 2
    /\ DOMAIN target = {1, 2, 3}

---------------------------------------------------------------------------
\* Slot setup.

SlotSetup == {"check_slot", "drop_slot", "create_slot"}

\* C11: a failure of the slot check, of the drop or of the creation ends the
\* process at that step; a process that has ended stays ended, and it has
\* written nothing to the target and run no poll tick.
C11_SlotSetupFatal ==
    /\ [](pc = "fatal" => /\ target = tgt0
                          /\ copiedCount = 0
                          /\ ticks = 0
                          /\ delivered = {})
    /\ [][/\ (pc \in SlotSetup /\ faults' > faults) => pc' = "fatal"
          /\ pc = "fatal" => /\ pc' = "fatal"
                             /\ target' = target
                             /\ targetSeq' = targetSeq
                             /\ ticks' = ticks
                             /\ delivered' = delivered]_vars

\* C11 witness: the process has ended in slot setup (no slot exists, so the
\* bulk query was never reached), with rows in the target and changes still
\* being written to the source.
C11_EndedInSetup ==
    /\ pc = "fatal"
    /\ ~slotExists
    /\ faults = 1
    /\ target # EmptyTable
    /\ writes > 0

\* C12: past slot setup the slot is one this run created, and every record
\* pending in it or delivered to a tick was committed after its creation;
\* nothing that was pending in a slot found at startup is delivered.
C12_FreshSlot ==
    /\ pc \notin SlotSetup \cup {"fatal"} => slotStart >= 1
    /\ pc \notin SlotSetup => \A l \in Lsns(slot) : l >= slotStart
    /\ \A l \in delivered : l >= slotStart

\* C12 witness: changes were committed before this run created its slot (any
\* slot found at startup held them), and a later tick has delivered records.
C12_DeliveredAfterRestart ==
    /\ slotStart > 1
    /\ pc = "processing"
    /\ delivered # {}

---------------------------------------------------------------------------
\* Failures inside a tick.

\* This step is an iteration whose statement on the target failed.
ApplyFails ==
    /\ pc = "processing"
    /\ faults' > faults
    /\ outcome' \in ApplyErrors

\* C13: an event whose statement fails is dropped. The failed statement
\* changes nothing and counts nothing, the tick goes on with exactly the
\* records behind it and ends only when none is left, and the event comes
\* back neither in this tick nor in a later one: a tick's records only ever
\* shrink from the front, a new tick brings only records never delivered
\* before, and no delivered record is pending in the slot.
C13_FailedEventDropped ==
    /\ [](Lsns(changeRows) \subseteq delivered
            /\ Lsns(slot) \cap delivered = {})
    /\ [][/\ ApplyFails => /\ target' = target
                           /\ processedChanges' = processedChanges
                           /\ pc' = "processing"
                           /\ changeRows' = Tail(changeRows)
                           /\ Head(changeRows).lsn
                                 \notin Lsns(changeRows') \cup Lsns(slot')
          /\ (pc = "processing" /\ changeRows' # changeRows)
                => changeRows' \in {Tail(changeRows), << >>}
          /\ (pc = "processing" /\ pc' = "idle") => changeRows = << >>
          /\ ticks' > ticks
                => Lsns(changeRows') \cap delivered = {}]_vars

\* C13 witness: a statement has failed and the tick is going on with a
\* record behind the failed one that will reach a statement too.
C13_FailedThenNext ==
    /\ pc = "processing"
    /\ outcome \in ApplyErrors
    /\ faults = 1
    /\ changeRows # << >>
    /\ ReachesExec(Head(changeRows))

---------------------------------------------------------------------------
\* The primary key of an event.

\* The outcomes of an iteration that issued a statement on the target.
StatementOutcomes == {"insert", "update", "delete"} \cup ApplyErrors

\* Whether the record carries a value for id where its action looks for it:
\* in identity for a delete, in columns otherwise.
CarriesId(raw) ==
    LET change == Unmarshal(raw).change
        cols == IF change.Action = "D" THEN change.Identity
                ELSE change.Columns
    IN  ~Param(MapValues(cols), "id").null

\* C14: an iteration that issues a statement on the target is on an event
\* that carries its primary key; for an event without id no statement is
\* attempted.
C14_NoStatementWithoutId ==
    [][(/\ pc = "processing"
        /\ changeRows' # changeRows
        /\ outcome' \in StatementOutcomes)
          => CarriesId(Head(changeRows))]_vars

---------------------------------------------------------------------------
\* One thread of control.

BeforePolling ==
    SlotSetup \cup {"bulk_query", "bulk_loop", "seq_sync", "seq_alter", "fatal"}

Polling == {"idle", "processing"}

\* C15: the bulk copy and the poll ticks never overlap. Up to the end of the
\* bulk copy no tick has run; while polling the bulk cursor is exhausted, and
\* when the first tick can start every copied row has been written, the last
\* partial batch included; a tick starts only from idle, where the records of
\* the tick before have all been processed.
C15_SingleThread ==
    /\ [](/\ pc \in BeforePolling => /\ ticks = 0
                                     /\ changeRows = << >>
                                     /\ delivered = {}
                                     /\ outcome = "none"
          /\ pc \in Polling => rows = << >>
          /\ (pc = "idle" /\ ticks = 0 /\ faults = 0)
                => Cardinality(DOMAIN target) >= copiedCount
          /\ pc = "idle" => changeRows = << >>)
    /\ [][/\ ticks' > ticks => pc = "idle"
          /\ (pc \in Polling /\ pc' # pc) => pc' \in Polling
          /\ (pc \notin Polling /\ pc' \in Polling)
                => (pc \in {"seq_sync", "seq_alter"} /\ pc' = "idle")]_vars

\* C15 witness: after a bulk copy that ended with a partial batch of one
\* row, the second tick is processing its records.
C15_SecondTickAfterLoad ==
    /\ pc = "processing"
    /\ ticks = 2
    /\ changeRows # << >>
    /\ copiedCount = 1

---------------------------------------------------------------------------
\* Insert and update events on rows the target holds.

\* The value an event's columns give for a key (meaningful where present).
EventValue(raw, key) ==
    Param(MapValues(Unmarshal(raw).change.Columns), key).v

\* This step is an iteration on the first pending record that ended with
\* the given outcome.
Iteration(what) ==
    /\ pc = "processing"
    /\ changeRows' # changeRows
    /\ outcome' = what

\* C16: an insert event whose id the target already holds leaves every
\* non-key field of that row (name, uid, score, created_at) equal to the
\* event's value.
C16_UpsertOverwritesAll ==
    [][(Iteration("insert")
          /\ EventValue(Head(changeRows), "id") \in DOMAIN target)
         => LET e == Head(changeRows)
            IN  target'[EventValue(e, "id")]
                  = PersonRow(EventValue(e, "name"), EventValue(e, "uid"),
                              EventValue(e, "score"),
                              EventValue(e, "created_at"))]_vars

\* C17: an update event is applied to the target row whose id is the id in
\* columns, whatever id identity carries: that row's non-key fields take the
\* values in columns, and no other row changes.
C17_UpdateByColumnsId ==
    [][(Iteration("update")
          /\ EventValue(Head(changeRows), "id") \in DOMAIN target)
         => LET e == Head(changeRows)
                k == EventValue(e, "id")
            IN  /\ DOMAIN target' = DOMAIN target
                /\ \A j \in DOMAIN target \ {k} : target'[j] = target[j]
                /\ target'[k]
                     = PersonRow(EventValue(e, "name"), EventValue(e, "uid"),
                                 EventValue(e, "score"),
                                 EventValue(e, "created_at"))]_vars

---------------------------------------------------------------------------
\* The bulk copy on a target that holds rows.

\* C18: a row that the target held when the bulk copy began keeps every
\* field value during and after the copy, also when the source holds a
\* different row under the same id.
C18_ExistingRowsKept ==
    pc \in {"bulk_loop", "seq_sync"}
        => \A k \in DOMAIN tgt0 : k \in DOMAIN target /\ target[k] = tgt0[k]

\* C18 witness: a copy without failures has ended; it added a row to the
\* target and left alone a row whose source row under the same id differs.
C18_ConflictSkipped ==
    /\ pc = "seq_sync"
    /\ faults = 0
    /\ DOMAIN target # DOMAIN tgt0
    /\ \E k \in DOMAIN tgt0 \cap DOMAIN source :
          source[k] # tgt0[k] /\ target[k] = tgt0[k]

---------------------------------------------------------------------------
\* The table filter.

\* The first pending record is a change of a table other than person.
OtherTable(raw) ==
    Unmarshal(raw).ok /\ Unmarshal(raw).change.Table # "person"

\* C19: the iteration on a record of another table issues no statement,
\* leaves the target as it is and adds nothing to the count of applied
\* changes.
C19_OtherTableSkipped ==
    [][(/\ pc = "processing"
        /\ changeRows' # changeRows
        /\ OtherTable(Head(changeRows)))
          => /\ target' = target
             /\ processedChanges' = processedChanges
             /\ outcome' \notin StatementOutcomes
             /\ faults' = faults => outcome' = "filtered"]_vars

\* C19 witness: an insert into another table under id 1 has been skipped in
\* a tick with more records to process; the target holds no row 1.
C19_SkippedOrders ==
    /\ pc = "processing"
    /\ outcome = "filtered"
    /\ changeRows # << >>
    /\ 1 \notin DOMAIN target

---------------------------------------------------------------------------
\* The poll loop goes on.

\* The outcomes of an iteration that failed in a way the loop survives.
RecoverableErrors == {"scan_error", "parse_error"} \cup ApplyErrors

\* C20: once polling, the process never leaves the poll loop, whatever
\* fails inside a tick; under a fair timer every tick in progress comes to
\* its end, and from idle the next tick starts (counted up to MaxTicks).
C20_KeepsTicking ==
    /\ [][(pc \in Polling) => (pc' \in Polling)]_vars
    /\ (pc = "processing") ~> (pc = "idle")
    /\ \A n \in 0 .. MaxTicks - 1 :
          (pc = "idle" /\ ticks = n) ~> (ticks = n + 1)

\* C20 witness: the first tick had a record that failed, it has ended, and
\* the process is idle with the next tick due.
C20_IdleAfterFailure ==
    /\ pc = "idle"
    /\ ticks = 1
    /\ faults = 1
    /\ outcome \in RecoverableErrors

\* The poll loop on its own starts in a state of the whole run.
PollEntry == InitPoll

---------------------------------------------------------------------------
\* The count of applied changes.

\* The outcomes of an iteration whose statement on the target succeeded.
AppliedOutcomes == {"insert", "update", "delete"}

\* C21: the count of a tick starts at 0 and goes up by one with every
\* iteration whose statement succeeded, and with nothing else: an iteration
\* that failed to scan or decode, was filtered by table, had no known action
\* or whose statement failed leaves it, and so does every step that is no
\* iteration. At the end of the tick it is the number of the tick's events
\* that were applied.
C21_AppliedCount ==
    [][/\ (pc = "idle" /\ pc' = "processing") => processedChanges' = 0
       /\ (pc = "processing" /\ changeRows' # changeRows)
             => processedChanges'
                  = processedChanges
                      + (IF outcome' \in AppliedOutcomes THEN 1 ELSE 0)
       /\ (pc = "processing" /\ changeRows' = changeRows)
             => processedChanges' = processedChanges]_vars

\* C21 witness: the first tick has ended; it had three events, of which one
\* was applied.
C21_OneOfThree ==
    /\ pc = "idle"
    /\ ticks = 1
    /\ Cardinality(delivered) = 3
    /\ processedChanges = 1

---------------------------------------------------------------------------
\* The sequence of the target.

\* The largest id of table t plus one, 1 for a table without rows.
MaxPlusOne(t) == IF DOMAIN t = {} THEN 1 ELSE Max(DOMAIN t) + 1

\* This step ends the resync, and no statement of it failed in the step.
ResyncEnds ==
    /\ pc \in {"seq_sync", "seq_alter"}
    /\ pc' = "idle"
    /\ faults' = faults

\* This step is an insert into the target that takes its id from the
\* sequence, after a load in which no statement failed.
InsertAfterLoad ==
    /\ pc = "idle"
    /\ faults = 0
    /\ targetSeq' # targetSeq

\* The insert of this step met no row under its id and added its row.
NoCollision ==
    /\ targetSeq \notin DOMAIN target
    /\ DOMAIN target' = DOMAIN target \cup {targetSeq}
    /\ \A k \in DOMAIN target : target'[k] = target[k]

---------------------------------------------------------------------------
\* The bulk copy run again after it was cut short.

\* Table t holds the first rows of table s in id order, as s holds them.
WrittenPrefix(t, s) ==
    /\ DOMAIN t \subseteq DOMAIN s
    /\ \A k \in DOMAIN t : t[k] = s[k]
    /\ \A k \in DOMAIN t : \A j \in DOMAIN s : j < k => j \in DOMAIN t

\* C23: a bulk copy that starts on a target holding a prefix of the source's
\* rows (what a copy cut short has left) and meets no failure ends with the
\* target holding exactly the source's rows, as a copy into an empty target
\* does, and has queued every row of the source.
C23_RerunCompletes ==
    (pc = "seq_sync" /\ faults = 0 /\ WrittenPrefix(tgt0, source))
        => /\ target = source
           /\ copiedCount = Cardinality(DOMAIN source)

\* C23 witness: a copy of three rows that started on a target holding the
\* first of them has ended with the target equal to the source.
C23_RerunOnOneOfThree ==
    /\ pc = "seq_sync"
    /\ faults = 0
    /\ WrittenPrefix(tgt0, source)
    /\ Cardinality(DOMAIN tgt0) = 1
    /\ Cardinality(DOMAIN source) = 3
    /\ target = source

---------------------------------------------------------------------------
\* Snapshot and stream.

\* The record is an insert of a person row under an id that t holds.
InsertOfHeld(raw, t) ==
    /\ raw.wellformed
    /\ Member(raw.doc, "action", "") = "I"
    /\ Member(raw.doc, "table", "") = "person"
    /\ EventValue(raw, "id") \in DOMAIN t

\* C24: the snapshot of the bulk copy is read only when the slot this run
\* created exists; every change committed since the slot's creation is
\* pending in the slot or has been delivered to a tick, and a slot read that
\* succeeds delivers all that is pending. No change falls between snapshot
\* and stream.
C24_NoGap ==
    /\ [](slotStart >= 1
            => \A l \in slotStart .. nextLsn - 1 :
                  l \in Lsns(slot) \cup delivered)
    /\ [][/\ (pc = "bulk_query" /\ pc' = "bulk_loop")
                => (slotExists /\ slotStart >= 1)
          /\ (pc = "idle" /\ pc' = "processing")
                => /\ changeRows' = slot
                   /\ Lsns(slot) \subseteq delivered'
                   /\ slot' = << >>]_vars

\* C24 witness: the first tick has read the slot and processed nothing yet,
\* so the target holds what the snapshot gave it; the one change written to
\* the source is among the tick's records, the insert of a row the target
\* holds: it was committed after the slot's creation and before the snapshot
\* read, and is in both.
C24_InSnapshotAndStream ==
    /\ pc = "processing"
    /\ ticks = 1
    /\ writes = 1
    /\ outcome = "none"
    /\ faults = 0
    /\ tgt0 = EmptyTable
    /\ \E i \in 1 .. Len(changeRows) : InsertOfHeld(changeRows[i], target)

---------------------------------------------------------------------------
\* A batch of the bulk copy that fails.

\* This step is an iteration of the row loop of the bulk copy.
RowIteration ==
    /\ pc = "bulk_loop"
    /\ rows # << >>
    /\ rows' # rows

---------------------------------------------------------------------------
\* An update of a row the target does not hold.

\* The record is an update of a person row under an id that t does not hold.
UpdateOfAbsent(raw, t) ==
    /\ raw.wellformed
    /\ Member(raw.doc, "action", "") = "U"
    /\ Member(raw.doc, "table", "") = "person"
    /\ CarriesId(raw)
    /\ EventValue(raw, "id") \notin DOMAIN t

\* C26: the iteration on an update whose id in columns is the id of no row
\* of the target, when scan and statement do not fail, leaves the target as
\* it is, reports an update and adds one to the count of applied changes.
C26_UpdateAbsentRow ==
    [][(/\ pc = "processing"
        /\ changeRows' # changeRows
        /\ faults' = faults
        /\ UpdateOfAbsent(Head(changeRows), target))
          => /\ target' = target
             /\ outcome' = "update"
             /\ processedChanges' = processedChanges + 1]_vars

\* C26 witness: the one change written to the source moved row 1 to id 2;
\* the update, with id 2 in columns, has been applied and counted, and the
\* target holds row 1 as before and no row 2.
C26_UpdatedNoRow ==
    /\ pc = "processing"
    /\ outcome = "update"
    /\ processedChanges = 1
    /\ faults = 0
    /\ writes = 1
    /\ DOMAIN source = {2}
    /\ DOMAIN target = {1}

====
